---- MODULE Spec2Model ----
(***************************************************************************)
(* Memory Match (src/memorymatchgame.c): the board initialiser, the        *)
(* Fisher-Yates shuffle, pick_card's validation and the turn loop of main, *)
(* as one sequential state machine.                                        *)
(***************************************************************************)
EXTENDS Integers, Sequences, FiniteSets, TLC

\* ------------------------------------------------------------------ bounds
\* Largest grid explored: BOARD_ROWS in 1..MaxRows, BOARD_COLS in 1..MaxCols.
MaxRows == 2
MaxCols == 2
\* One grid whose pair count exceeds the symbol pool (OverRows x OverCols).
OverRows == 9
OverCols == 14
\* rand() returns a value in 0..RandMax.
RandMax == 7
\* A new attempt is started only while moves < MaxMoves.
MaxMoves == 3
\* shuffle_symbols alone is run on every sequence of at most MaxShuffleLen symbols.
MaxShuffleLen == 4

\* ------------------------------------------------------- program constants
POOL_SIZE == 128
UPPER_A == 65
UPPER_Z == 90
LOWER_A == 97
LOWER_Z == 122
DIGIT_0 == 48
DIGIT_9 == 57
\* '*', shown for a face-down card.
STAR == 42
EOF == 0 - 1
\* Value of a pick variable outside its scope, and of exit_status while running.
NoIndex == 0 - 1

VARIABLES
    BOARD_ROWS,   \* #define BOARD_ROWS
    BOARD_COLS,   \* #define BOARD_COLS
    pc,           \* position in main / init_board
    board,        \* Card board[BOARD_ROWS][BOARD_COLS], << >> before it is filled
    symbols,      \* init_board's symbols[], << >> outside init_board
    shuffle_i,    \* shuffle_symbols' loop variable i
    symbols0,     \* history: symbols[] as passed to shuffle_symbols
    choices,      \* history: the index j of each iteration so far
    pairs_found,
    total_pairs,
    moves,
    r1, c1, r2, c2,   \* the turn's picks, NoIndex outside their scope
    event,        \* the message printed by the last step
    input,        \* history: what scanf delivered to the last pick_card call
    attempts,     \* history: attempts in which both picks were accepted and distinct
    stdin_buf,    \* characters of the line in stdin's buffer that are not yet read
    next_line,    \* history: the line entered after the line that acknowledged
    ack_read,     \* history: the characters the acknowledgment read
    exit_status   \* NoIndex while running

vars == << BOARD_ROWS, BOARD_COLS, pc, board, symbols, shuffle_i, symbols0,
           choices, pairs_found,
           total_pairs, moves, r1, c1, r2, c2, event, input, attempts,
           stdin_buf, next_line, ack_read, exit_status >>

\* --------------------------------------------------------------- the grid
Configs ==
    ((1..MaxRows) \X (1..MaxCols)) \cup { << OverRows, OverCols >> }

Cells == (0..(BOARD_ROWS - 1)) \X (0..(BOARD_COLS - 1))

CellCount == BOARD_ROWS * BOARD_COLS

\* ------------------------------------------------------------ init_board
\* One of the three fill loops: for (c = lo; c <= hi && pool_idx < sizeof(pool)-1; ++c)
RECURSIVE PoolFill(_, _, _)
PoolFill(pool, c, hi) ==
    IF c <= hi /\ Len(pool) < POOL_SIZE - 1
    THEN PoolFill(Append(pool, c), c + 1, hi)
    ELSE pool

\* pool[] after the three loops; pool[k] of the source is Pool[k + 1].
Pool ==
    PoolFill(PoolFill(PoolFill(<< >>, UPPER_A, UPPER_Z), LOWER_A, LOWER_Z),
             DIGIT_0, DIGIT_9)

pool_idx == Len(Pool)

\* pool[k] of the source, up to the terminating '\0' stored at pool[pool_idx].
PoolAt(k) == IF k < pool_idx THEN Pool[k + 1] ELSE 0

\* Faulty variant of NotEnoughSymbols: compares with the pool's capacity.
NotEnoughSymbolsByCapacity(pair_count, n) == pair_count > POOL_SIZE - 1

\* The guard of init_board's fatal error (line 126).
NotEnoughSymbols(pair_count, n) == pair_count > n

\* symbols[] after the pairing loop, indexed from 0 as in the source.
PairSymbols(pair_count) ==
    [k \in 0..(2 * pair_count - 1) |-> PoolAt(k \div 2)]

\* ------------------------------------------------------- shuffle_symbols
\* Faulty variant of ShuffleIndex: the element never stays in place (rand() % i).
ShuffleIndexBelow(rnd, i) == rnd % i

ShuffleIndex(rnd, i) == rnd % (i + 1)

\* Faulty variant of Swap: symbols[i] is overwritten before it is saved.
SwapWithoutTmp(s, i, j) ==
    [k \in DOMAIN s |-> IF k = i THEN s[j] ELSE s[k]]

Swap(s, i, j) ==
    [k \in DOMAIN s |-> IF k = i THEN s[j] ELSE IF k = j THEN s[i] ELSE s[k]]

\* The loop of shuffle_symbols run from index i with the indices js, one per iteration.
RECURSIVE ShuffleFrom(_, _, _)
ShuffleFrom(s, i, js) ==
    IF js = << >>
    THEN s
    ELSE ShuffleFrom(Swap(s, i, Head(js)), i - 1, Tail(js))

\* The indices j that iteration i can draw.
JChoices(i) == { ShuffleIndex(rnd, i) : rnd \in 0..RandMax }

\* The sequences of indices a whole run over n elements can draw.
ChoiceSeqs(n) ==
    { js \in [1..(n - 1) -> 0..(n - 1)] :
         \A k \in 1..(n - 1) : js[k] \in JChoices(n - k) }

\* The fill loop of init_board: row-major placement, flags cleared.
FillBoard(s) ==
    [cell \in Cells |->
        [symbol   |-> s[cell[1] * BOARD_COLS + cell[2]],
         revealed |-> FALSE,
         matched  |-> FALSE]]

\* --------------------------------------------------------- display_board
\* The character printed for each cell: its symbol if matched or revealed.
display_board(b) ==
    [cell \in DOMAIN b |->
        IF b[cell].matched \/ b[cell].revealed THEN b[cell].symbol ELSE STAR]

\* ------------------------------------------------------------------ stdin
\* Characters are one-character strings; "x" stands for any character that is
\* neither a digit nor white space.
Digits == << "0", "1", "2", "3", "4", "5", "6", "7", "8", "9" >>

IsDigit(ch) == \E n \in 1..Len(Digits) : Digits[n] = ch

DigitVal(ch) == (CHOOSE n \in 1..Len(Digits) : Digits[n] = ch) - 1

IsSpace(ch) == ch \in { " ", "\n" }

\* getchar(): takes one character, nothing at end of input.
getchar(t) ==
    IF t = << >>
    THEN [read |-> << >>, rest |-> t]
    ELSE [read |-> << Head(t) >>, rest |-> Tail(t)]

\* clear_input_buffer(): reads up to and including the first newline.
RECURSIVE ClearFrom(_, _)
ClearFrom(read, t) ==
    IF t = << >>
    THEN [read |-> read, rest |-> t]
    ELSE IF Head(t) = "\n"
    THEN [read |-> Append(read, Head(t)), rest |-> Tail(t)]
    ELSE ClearFrom(Append(read, Head(t)), Tail(t))

clear_input_buffer(t) == ClearFrom(<< >>, t)

RECURSIVE SkipSpace(_)
SkipSpace(t) ==
    IF t # << >> /\ IsSpace(Head(t)) THEN SkipSpace(Tail(t)) ELSE t

RECURSIVE ReadDigits(_, _)
ReadDigits(val, t) ==
    IF t # << >> /\ IsDigit(Head(t))
    THEN ReadDigits(val * 10 + DigitVal(Head(t)), Tail(t))
    ELSE [val |-> val, rest |-> t]

\* One %d conversion on the characters at hand: an integer, a matching
\* failure, or the characters ran out in white space (more input is read).
ScanInt(t) ==
    LET u == SkipSpace(t) IN
    IF u = << >>
    THEN [status |-> "more", val |-> 0, rest |-> u]
    ELSE IF IsDigit(Head(u))
    THEN LET d == ReadDigits(0, u) IN
         [status |-> "int", val |-> d.val, rest |-> d.rest]
    ELSE [status |-> "fail", val |-> 0, rest |-> u]

\* scanf("%d %d") on the characters at hand: whether it returns without
\* reading further input, the conversions made and their values.
scanf(t) ==
    LET a == ScanInt(t) IN
    IF a.status = "more"
    THEN [complete |-> FALSE, scanned |-> 0, r |-> 0, c |-> 0]
    ELSE IF a.status = "fail"
    THEN [complete |-> TRUE, scanned |-> 0, r |-> 0, c |-> 0]
    ELSE LET b == ScanInt(a.rest) IN
         IF b.status = "more"
         THEN [complete |-> FALSE, scanned |-> 1, r |-> a.val, c |-> 0]
         ELSE IF b.status = "fail"
         THEN [complete |-> TRUE, scanned |-> 1, r |-> 0, c |-> 0]
         ELSE [complete |-> TRUE, scanned |-> 2, r |-> a.val, c |-> b.val]

\* What scanf("%d %d") can deliver: EOF, 0 or 1 conversions (r, c not used),
\* or 2 conversions with the two integers.
InputInts == 0..((IF MaxRows > MaxCols THEN MaxRows ELSE MaxCols) + 1)

Inputs ==
    { [scanned |-> s, r |-> 0, c |-> 0] : s \in {EOF, 0, 1} }
    \cup { [scanned |-> 2, r |-> r, c |-> c] : r \in InputInts, c \in InputInts }

NoInput == [scanned |-> 0, r |-> NoIndex, c |-> NoIndex]

\* What scanf can deliver to pick_card when `buf` is still unread in stdin:
\* anything if there is nothing; the parse of buf if scanf completes on it;
\* else what was parsed from buf, completed by further input.
InputsAfter(buf) ==
    IF buf = << >>
    THEN Inputs
    ELSE LET p == scanf(buf) IN
         IF p.complete
         THEN { [scanned |-> p.scanned, r |-> p.r, c |-> p.c] }
         ELSE IF p.scanned = 0
         THEN Inputs
         ELSE { [scanned |-> 1, r |-> 0, c |-> 0] }
              \cup { [scanned |-> 2, r |-> p.r, c |-> c] : c \in InputInts }

\* The lines a player enters: "r c", " r c", an empty line, a non-numeric line.
TypedLines ==
    { << Digits[r + 1], " ", Digits[c + 1], "\n" >> : r \in InputInts, c \in InputInts }
    \cup { << " ", Digits[r + 1], " ", Digits[c + 1], "\n" >> : r \in {1}, c \in 1..2 }
    \cup { << "\n" >>, << "x", "\n" >> }

\* The lines a player enters to continue: Enter alone, or some text and Enter.
ContinueLines == { << "\n" >>, << "x", "\n" >> }

InRange(r, c) == ~(r < 1 \/ r > BOARD_ROWS \/ c < 1 \/ c > BOARD_COLS)

\* The cells whose flags pick_card reads for an input (lines 194-211).
pick_card_reads(in) ==
    IF in.scanned # 2
    THEN {}
    ELSE IF ~InRange(in.r, in.c)
    THEN {}
    ELSE { << in.r - 1, in.c - 1 >> }

\* Faulty variant of pick_card: only the range of the coordinates is checked.
pick_card_range_only(b, in) ==
    IF in.scanned # 2
    THEN [ok |-> FALSE, row |-> NoIndex, col |-> NoIndex, msg |-> "invalid_input"]
    ELSE IF ~InRange(in.r, in.c)
    THEN [ok |-> FALSE, row |-> NoIndex, col |-> NoIndex, msg |-> "out_of_range"]
    ELSE [ok |-> TRUE, row |-> in.r - 1, col |-> in.c - 1, msg |-> "none"]

\* Faulty variant of pick_card: the revealed flag is not consulted.
pick_card_ignoring_revealed(b, in) ==
    IF in.scanned # 2
    THEN [ok |-> FALSE, row |-> NoIndex, col |-> NoIndex, msg |-> "invalid_input"]
    ELSE IF ~InRange(in.r, in.c)
    THEN [ok |-> FALSE, row |-> NoIndex, col |-> NoIndex, msg |-> "out_of_range"]
    ELSE IF b[<< in.r - 1, in.c - 1 >>].matched
    THEN [ok |-> FALSE, row |-> NoIndex, col |-> NoIndex, msg |-> "already_matched"]
    ELSE [ok |-> TRUE, row |-> in.r - 1, col |-> in.c - 1, msg |-> "none"]

\* pick_card's outcome: the message it prints and, on success, the 0-based cell.
pick_card(b, in) ==
    IF in.scanned # 2
    THEN [ok |-> FALSE, row |-> NoIndex, col |-> NoIndex, msg |-> "invalid_input"]
    ELSE IF ~InRange(in.r, in.c)
    THEN [ok |-> FALSE, row |-> NoIndex, col |-> NoIndex, msg |-> "out_of_range"]
    ELSE IF b[<< in.r - 1, in.c - 1 >>].matched
    THEN [ok |-> FALSE, row |-> NoIndex, col |-> NoIndex, msg |-> "already_matched"]
    ELSE IF b[<< in.r - 1, in.c - 1 >>].revealed
    THEN [ok |-> FALSE, row |-> NoIndex, col |-> NoIndex, msg |-> "already_revealed"]
    ELSE [ok |-> TRUE, row |-> in.r - 1, col |-> in.c - 1, msg |-> "none"]

\* ------------------------------------------------------------------ main
BoardIsOdd == (BOARD_ROWS * BOARD_COLS) % 2 # 0

\* Faulty variant of LoopCond: the loop runs once more after the last pair.
LoopCondInclusive(pf, tp) == pf <= tp

LoopCond(pf, tp) == pf < tp

\* Where control goes when the loop condition is evaluated.
LoopTop(pf, tp) == IF LoopCond(pf, tp) THEN "first" ELSE "won"

\* Faulty variant of Reveal: the row of the pick is ignored.
RevealIgnoresRow(b, r, c) == [b EXCEPT ![<< 0, c >>].revealed = TRUE]

Reveal(b, r, c) == [b EXCEPT ![<< r, c >>].revealed = TRUE]

\* Faulty variant of Hide: the whole card is cleared.
HideClearsCard(b, r, c) ==
    [b EXCEPT ![<< r, c >>] = [symbol |-> 0, revealed |-> FALSE, matched |-> FALSE]]

\* Faulty variant of Hide: the card is left face up.
HideNothing(b, r, c) == b

Hide(b, r, c) == [b EXCEPT ![<< r, c >>].revealed = FALSE]

\* Faulty variant of MarkMatched: the card is matched and turned face down.
MarkMatchedAndHide(b, r, c) ==
    [b EXCEPT ![<< r, c >>].matched = TRUE, ![<< r, c >>].revealed = FALSE]

MarkMatched(b, r, c) == [b EXCEPT ![<< r, c >>].matched = TRUE]

SameCard(ra, ca, rb, cb) == ra = rb /\ ca = cb

\* Faulty variant of SymbolsEqual: any two cards count as a pair.
SymbolsEqualAlways(b, ra, ca, rb, cb) == TRUE

SymbolsEqual(b, ra, ca, rb, cb) == b[<< ra, ca >>].symbol = b[<< rb, cb >>].symbol

\* Faulty variant of NextMoves: an attempt counts once per card.
NextMovesPerCard(m) == m + 2

NextMoves(m) == m + 1

NextPairsFound(pf) == pf + 1

\* ------------------------------------------------- the spec's vocabulary
\* The validity predicate of a pick, on the 1-based integers the player entered.
ValidPick(b, in) ==
    /\ in.scanned = 2
    /\ in.r \in 1..BOARD_ROWS
    /\ in.c \in 1..BOARD_COLS
    /\ ~b[<< in.r - 1, in.c - 1 >>].matched
    /\ ~b[<< in.r - 1, in.c - 1 >>].revealed

\* The cell a well-formed pick addresses.
PickedCell(in) == << in.r - 1, in.c - 1 >>

\* A second pick that completes an attempt: valid, and not the first pick's cell.
CompletesAttempt(b, in, ra, ca) ==
    ValidPick(b, in) /\ PickedCell(in) # << ra, ca >>

Init ==
    /\ \E cfg \in Configs : BOARD_ROWS = cfg[1] /\ BOARD_COLS = cfg[2]
    /\ pc = "main"
    /\ board = << >>
    /\ symbols = << >>
    /\ shuffle_i = 0
    /\ symbols0 = << >>
    /\ choices = << >>
    /\ pairs_found = 0
    /\ total_pairs = 0
    /\ moves = 0
    /\ r1 = NoIndex /\ c1 = NoIndex /\ r2 = NoIndex /\ c2 = NoIndex
    /\ event = "none"
    /\ input = NoInput
    /\ attempts = 0
    /\ stdin_buf = << >> /\ next_line = << >> /\ ack_read = << >>
    /\ exit_status = NoIndex

\* main, lines 40-52: the parity check and the locals' initialisation.
MainStart ==
    /\ pc = "main"
    /\ IF BoardIsOdd
       THEN /\ event' = "must_be_even"
            /\ exit_status' = 1
            /\ pc' = "exit"
            /\ UNCHANGED << pairs_found, total_pairs, moves >>
       ELSE /\ pairs_found' = 0
            /\ total_pairs' = (BOARD_ROWS * BOARD_COLS) \div 2
            /\ moves' = 0
            /\ pc' = "init_board"
            /\ UNCHANGED << event, exit_status >>
    /\ UNCHANGED << stdin_buf, next_line, ack_read >>
    /\ UNCHANGED << BOARD_ROWS, BOARD_COLS, board, symbols, shuffle_i,
                    symbols0, choices, r1, c1, r2, c2, input, attempts >>

\* init_board, lines 117-140: pool, pair-count check, paired symbol list.
InitBoardSymbols ==
    /\ pc = "init_board"
    /\ LET pair_count == (BOARD_ROWS * BOARD_COLS) \div 2 IN
       IF NotEnoughSymbols(pair_count, pool_idx)
       THEN /\ event' = "not_enough_symbols"
            /\ exit_status' = 1
            /\ pc' = "exit"
            /\ UNCHANGED << symbols, shuffle_i, symbols0 >>
       ELSE /\ symbols' = PairSymbols(pair_count)
            /\ symbols0' = PairSymbols(pair_count)
            /\ shuffle_i' = CellCount - 1
            /\ pc' = "shuffle"
            /\ UNCHANGED << event, exit_status >>
    /\ UNCHANGED << stdin_buf, next_line, ack_read >>
    /\ UNCHANGED << BOARD_ROWS, BOARD_COLS, board, choices, pairs_found,
                    total_pairs, moves, r1, c1, r2, c2, input, attempts >>

\* shuffle_symbols, lines 155-160: one iteration of the loop.
ShuffleStep ==
    /\ pc = "shuffle"
    /\ shuffle_i > 0
    /\ \E rnd \in 0..RandMax :
          LET j == ShuffleIndex(rnd, shuffle_i) IN
          /\ symbols' = Swap(symbols, shuffle_i, j)
          /\ choices' = Append(choices, j)
    /\ shuffle_i' = shuffle_i - 1
    /\ UNCHANGED << stdin_buf, next_line, ack_read >>
    /\ UNCHANGED << BOARD_ROWS, BOARD_COLS, pc, board, symbols0, pairs_found, total_pairs,
                    moves, r1, c1, r2, c2, event, input, attempts, exit_status >>

\* init_board, lines 143-150, then main up to the first loop test (line 59).
InitBoardFill ==
    /\ pc = "shuffle"
    /\ ~(shuffle_i > 0)
    /\ board' = FillBoard(symbols)
    /\ symbols' = << >>
    /\ shuffle_i' = 0
    /\ symbols0' = << >>
    /\ choices' = << >>
    /\ event' = "welcome"
    /\ pc' = LoopTop(pairs_found, total_pairs)
    /\ UNCHANGED << stdin_buf, next_line, ack_read >>
    /\ UNCHANGED << BOARD_ROWS, BOARD_COLS, pairs_found, total_pairs, moves,
                    r1, c1, r2, c2, input, attempts, exit_status >>

\* main, lines 60-66: the first pick of a turn.
PickFirst ==
    /\ pc = "first"
    /\ moves < MaxMoves
    /\ \E in \in InputsAfter(stdin_buf) :
          LET res == pick_card(board, in) IN
          /\ input' = in
          /\ event' = res.msg
          /\ IF ~res.ok
             THEN /\ pc' = LoopTop(pairs_found, total_pairs)
                  /\ UNCHANGED << board, r1, c1 >>
             ELSE /\ r1' = res.row
                  /\ c1' = res.col
                  /\ board' = Reveal(board, res.row, res.col)
                  /\ pc' = "second"
    /\ stdin_buf' = << >> /\ next_line' = << >> /\ ack_read' = << >>
    /\ UNCHANGED << BOARD_ROWS, BOARD_COLS, symbols, shuffle_i, symbols0, choices,
                    pairs_found, total_pairs, moves, r2, c2, attempts, exit_status >>

\* main, lines 68-100 up to the acknowledgment: the second pick and the comparison.
PickSecond ==
    /\ pc = "second"
    /\ \E in \in Inputs :
          LET res == pick_card(board, in) IN
          /\ input' = in
          /\ attempts' = IF CompletesAttempt(board, in, r1, c1)
                         THEN attempts + 1 ELSE attempts
          /\ IF ~res.ok
             THEN /\ board' = Hide(board, r1, c1)
                  /\ event' = res.msg
                  /\ pc' = LoopTop(pairs_found, total_pairs)
                  /\ r1' = NoIndex /\ c1' = NoIndex
                  /\ UNCHANGED << r2, c2, moves, pairs_found >>
             ELSE IF SameCard(r1, c1, res.row, res.col)
             THEN /\ board' = Hide(board, r1, c1)
                  /\ event' = "same_card_twice"
                  /\ pc' = LoopTop(pairs_found, total_pairs)
                  /\ r1' = NoIndex /\ c1' = NoIndex
                  /\ UNCHANGED << r2, c2, moves, pairs_found >>
             ELSE LET shown == Reveal(board, res.row, res.col) IN
                  /\ moves' = NextMoves(moves)
                  /\ IF SymbolsEqual(shown, r1, c1, res.row, res.col)
                     THEN /\ event' = "match"
                          /\ board' = MarkMatched(MarkMatched(shown, r1, c1),
                                                  res.row, res.col)
                          /\ pairs_found' = NextPairsFound(pairs_found)
                          /\ pc' = LoopTop(NextPairsFound(pairs_found), total_pairs)
                          /\ r1' = NoIndex /\ c1' = NoIndex
                          /\ UNCHANGED << r2, c2 >>
                     ELSE /\ event' = "no_match"
                          /\ board' = shown
                          /\ r2' = res.row
                          /\ c2' = res.col
                          /\ pc' = "ack"
                          /\ UNCHANGED << r1, c1, pairs_found >>
    /\ UNCHANGED << stdin_buf, next_line, ack_read >>
    /\ UNCHANGED << BOARD_ROWS, BOARD_COLS, symbols, shuffle_i, symbols0, choices,
                    total_pairs, exit_status >>

\* main, lines 96-99: the player's acknowledgment, then both cards are hidden.
\* The player enters a line to continue and, as getchar still waits, a next line.
Acknowledge ==
    /\ pc = "ack"
    /\ \E entered \in ContinueLines, following \in TypedLines :
          LET cleared == clear_input_buffer(stdin_buf \o entered \o following)
              got     == getchar(cleared.rest)
          IN  /\ stdin_buf' = got.rest
              /\ ack_read' = cleared.read \o got.read
              /\ next_line' = following
    /\ board' = Hide(Hide(board, r1, c1), r2, c2)
    /\ event' = "none"
    /\ input' = NoInput
    /\ r1' = NoIndex /\ c1' = NoIndex /\ r2' = NoIndex /\ c2' = NoIndex
    /\ pc' = LoopTop(pairs_found, total_pairs)
    /\ UNCHANGED << BOARD_ROWS, BOARD_COLS, symbols, shuffle_i, symbols0, choices,
                    pairs_found, total_pairs, moves, attempts, exit_status >>

\* main, lines 103-110: the final summary.
Summary ==
    /\ pc = "won"
    /\ event' = "summary"
    /\ exit_status' = 0
    /\ pc' = "exit"
    /\ UNCHANGED << stdin_buf, next_line, ack_read >>
    /\ UNCHANGED << BOARD_ROWS, BOARD_COLS, board, symbols, shuffle_i, symbols0,
                    choices, pairs_found, total_pairs, moves, r1, c1, r2, c2, input,
                    attempts >>

Next ==
    \/ MainStart
    \/ InitBoardSymbols
    \/ ShuffleStep
    \/ InitBoardFill
    \/ PickFirst
    \/ PickSecond
    \/ Acknowledge
    \/ Summary

Spec == Init /\ [][Next]_vars

\* ------------------------------------------- shuffle_symbols on its own
\* The symbols a caller may pass: the first MaxShuffleLen pool symbols.
ShuffleAlphabet == { PoolAt(k) : k \in 0..(MaxShuffleLen - 1) }

\* shuffle_symbols(symbols, count) entered with any sequence of count symbols.
ShuffleInit ==
    /\ \E count \in 0..MaxShuffleLen :
          /\ symbols \in [0..(count - 1) -> ShuffleAlphabet]
          /\ shuffle_i = count - 1
          /\ BOARD_ROWS = 1
          /\ BOARD_COLS = count
    /\ symbols0 = symbols
    /\ choices = << >>
    /\ pc = "shuffle"
    /\ board = << >>
    /\ pairs_found = 0
    /\ total_pairs = 0
    /\ moves = 0
    /\ r1 = NoIndex /\ c1 = NoIndex /\ r2 = NoIndex /\ c2 = NoIndex
    /\ event = "none"
    /\ input = NoInput
    /\ attempts = 0
    /\ stdin_buf = << >> /\ next_line = << >> /\ ack_read = << >>
    /\ exit_status = NoIndex

ShuffleSpec == ShuffleInit /\ [][ShuffleStep]_vars

\* ------------------------------------------------------------ vocabulary
\* The turn loop has been entered (the board is filled).
InGame == pc \in {"first", "second", "ack", "won"} \/ (pc = "exit" /\ exit_status = 0)

Won == pc = "won" \/ (pc = "exit" /\ exit_status = 0)

\* The cells that are face up and not yet matched.
Open(b) == { cell \in DOMAIN b : b[cell].revealed /\ ~b[cell].matched }

\* b and b2 agree on every cell outside `cells`.
SameOutside(b, b2, cells) ==
    /\ DOMAIN b2 = DOMAIN b
    /\ \A cell \in DOMAIN b : cell \notin cells => b2[cell] = b[cell]

TypeOK ==
    /\ pc \in {"main", "init_board", "shuffle", "first", "second", "ack", "won", "exit"}
    /\ pairs_found \in 0..total_pairs
    /\ moves \in 0..MaxMoves
    /\ InGame => DOMAIN board = Cells

\* ------------------------------------------------------------------ claims

\* C1: in every reachable state the number of cells with revealed = TRUE and
\* matched = FALSE is 0, 1 or 2.
C1_OpenAtMostTwo == Cardinality(Open(board)) \in {0, 1, 2}

\* Two cards are face up and unmatched, waiting for the acknowledgment.
C1_Witness == pc = "ack" /\ Cardinality(Open(board)) = 2

\* C2: inside the game, Won holds exactly when pairs_found = total_pairs and
\* pairs_found never exceeds total_pairs; from Won the only step is the final
\* summary, which changes no cell and no counter, and nothing follows it.
C2_WonIff ==
    InGame => /\ pairs_found <= total_pairs
              /\ Won <=> pairs_found = total_pairs

C2_WonStep ==
    /\ pc = "won" => /\ pc' = "exit"
                     /\ event' = "summary"
                     /\ exit_status' = 0
                     /\ board' = board
                     /\ pairs_found' = pairs_found
                     /\ moves' = moves
    /\ pc # "exit"

C2_WonExactly == [](C2_WonIff) /\ [][C2_WonStep]_vars

\* The summary has been printed after all pairs of a board were found.
C2_Witness ==
    /\ pc = "exit" /\ exit_status = 0 /\ event = "summary"
    /\ pairs_found = total_pairs /\ total_pairs >= 2

\* C3: a second pick that is valid, distinct from the first and of equal symbol
\* sets matched on both cells, leaves both revealed, adds exactly 1 to
\* pairs_found and to moves, and changes no other cell.
C3_MatchStep ==
    (/\ pc = "second"
     /\ CompletesAttempt(board, input', r1, c1)
     /\ board[<< r1, c1 >>].symbol = board[PickedCell(input')].symbol)
    => /\ board'[<< r1, c1 >>] =
              [symbol |-> board[<< r1, c1 >>].symbol, revealed |-> TRUE, matched |-> TRUE]
       /\ board'[PickedCell(input')] =
              [symbol |-> board[PickedCell(input')].symbol, revealed |-> TRUE, matched |-> TRUE]
       /\ SameOutside(board, board', {<< r1, c1 >>, PickedCell(input')})
       /\ pairs_found' = pairs_found + 1
       /\ moves' = moves + 1

C3_MatchEffect == [][C3_MatchStep]_vars

\* A match has just been made and the game goes on.
C3_Witness ==
    /\ pc = "first" /\ event = "match" /\ pairs_found = 1 /\ moves >= 1
    /\ Cardinality({cell \in DOMAIN board : board[cell].matched}) = 2

\* C4: a second pick that is valid, distinct from the first and of a different
\* symbol leaves both cells revealed and unmatched until the acknowledgment,
\* with moves increased by exactly 1 and pairs_found unchanged; the
\* acknowledgment hides both cells, leaves them unmatched, changes no counter
\* and no other cell, and the game awaits a first pick.
C4_MismatchStep ==
    (/\ pc = "second"
     /\ CompletesAttempt(board, input', r1, c1)
     /\ board[<< r1, c1 >>].symbol # board[PickedCell(input')].symbol)
    => /\ pc' = "ack"
       /\ << r1', c1' >> = << r1, c1 >>
       /\ << r2', c2' >> = PickedCell(input')
       /\ board' = [board EXCEPT ![PickedCell(input')].revealed = TRUE]
       /\ moves' = moves + 1
       /\ pairs_found' = pairs_found

C4_WhileShown ==
    pc = "ack" => /\ << r1, c1 >> # << r2, c2 >>
                  /\ Open(board) = {<< r1, c1 >>, << r2, c2 >>}

C4_AckStep ==
    pc = "ack"
    => /\ pc' = "first"
       /\ board' = [board EXCEPT ![<< r1, c1 >>].revealed = FALSE,
                                 ![<< r2, c2 >>].revealed = FALSE]
       /\ ~board'[<< r1, c1 >>].matched /\ ~board'[<< r2, c2 >>].matched
       /\ moves' = moves
       /\ pairs_found' = pairs_found

C4_MismatchEffect ==
    [](C4_WhileShown) /\ [][C4_MismatchStep /\ C4_AckStep]_vars

\* A mismatch has been acknowledged: one move counted, nothing face up.
C4_Witness ==
    /\ pc = "first" /\ moves = 1 /\ pairs_found = 0 /\ event = "none"
    /\ \A cell \in DOMAIN board : ~board[cell].revealed /\ ~board[cell].matched

\* C5: a second pick that is not valid, or is the first pick's coordinate,
\* resets the first cell's revealed flag, returns to awaiting a first pick
\* and changes neither counter nor any other cell.
C5_RejectedSecondStep ==
    (pc = "second" /\ ~CompletesAttempt(board, input', r1, c1))
    => /\ pc' = "first"
       /\ board' = [board EXCEPT ![<< r1, c1 >>].revealed = FALSE]
       /\ moves' = moves
       /\ pairs_found' = pairs_found

C5_SecondRejected == [][C5_RejectedSecondStep]_vars

\* The first pick's own coordinate was entered as second pick and the card is
\* face down again.
C5_Witness ==
    /\ pc = "first" /\ event = "already_revealed" /\ input.scanned = 2
    /\ Open(board) = {}
    /\ ~board[PickedCell(input)].revealed

\* C6: when the second pick is the coordinate of the attempt's first pick, the
\* message reported for it is "same card twice".
C6_DuplicateStep ==
    (/\ pc = "second"
     /\ input'.scanned = 2
     /\ PickedCell(input') = << r1, c1 >>)
    => event' = "same_card_twice"

C6_DuplicateReported == [][C6_DuplicateStep]_vars

\* C7 as stated: a pick that fails the validity predicate, in either slot,
\* leaves the slot awaited, every cell and both counters unchanged.
C7_RejectedStepAnySlot ==
    (pc \in {"first", "second"} /\ ~ValidPick(board, input'))
    => /\ pc' = pc
       /\ board' = board
       /\ moves' = moves
       /\ pairs_found' = pairs_found

C7_NoChangeInEitherSlot == [][C7_RejectedStepAnySlot]_vars

\* C7 amended: a pick that fails the validity predicate is reported with one
\* of the four rejection messages and changes no symbol, no matched flag and
\* neither counter; in the first slot nothing at all changes and the first
\* slot is awaited again; in the second slot the first-picked cell is hidden
\* and the first slot is awaited.
C7_RejectedStep ==
    (pc \in {"first", "second"} /\ ~ValidPick(board, input'))
    => /\ event' \in {"invalid_input", "out_of_range", "already_matched",
                      "already_revealed"}
       /\ input'.scanned # 2 <=> event' = "invalid_input"
       /\ moves' = moves
       /\ pairs_found' = pairs_found
       /\ pc' = "first"
       /\ DOMAIN board' = DOMAIN board
       /\ \A cell \in DOMAIN board :
             /\ board'[cell].symbol = board[cell].symbol
             /\ board'[cell].matched = board[cell].matched
             /\ board'[cell].revealed =
                   (board[cell].revealed /\ ~(pc = "second" /\ cell = << r1, c1 >>))

C7_RejectedPick == [][C7_RejectedStep]_vars

\* A matched card was picked in the first slot and rejected.
C7_Witness ==
    /\ pc = "first" /\ event = "already_matched" /\ input.scanned = 2
    /\ board[PickedCell(input)].matched
    /\ Open(board) = {}

\* C8: while a first pick is awaited, a pick that fails the validity predicate
\* changes nothing (cells, counters, slot awaited); a valid pick sets the
\* picked cell's revealed flag, changes nothing else on the board or in the
\* counters, and the second pick is awaited.
C8_FirstPickStep ==
    pc = "first"
    => /\ moves' = moves
       /\ pairs_found' = pairs_found
       /\ total_pairs' = total_pairs
       /\ IF ValidPick(board, input')
          THEN /\ pc' = "second"
               /\ board' = [board EXCEPT ![PickedCell(input')].revealed = TRUE]
               /\ << r1', c1' >> = PickedCell(input')
          ELSE /\ pc' = "first"
               /\ board' = board

C8_FirstPickFrame == [][C8_FirstPickStep]_vars

\* A first pick in the second row has been accepted: that card alone is face up.
C8_Witness ==
    /\ pc = "second" /\ r1 = 1
    /\ Open(board) = {<< r1, c1 >>}
    /\ PickedCell(input) = << r1, c1 >>

\* C9: the move counter equals the number of attempts so far whose two picks
\* were valid and distinct.
C9_MovesCountAttempts == moves = attempts

\* Two attempts have been completed, and a later pick was rejected.
C9_Witness ==
    /\ moves = 2 /\ pc = "first"
    /\ event \in {"invalid_input", "out_of_range", "already_matched", "already_revealed"}

\* C10: once the board is filled it carries exactly BOARD_ROWS * BOARD_COLS / 2
\* distinct symbols, each of them in exactly 2 cells.
SymbolsInUse(b) == { b[cell].symbol : cell \in DOMAIN b }

CellsWith(b, sym) == { cell \in DOMAIN b : b[cell].symbol = sym }

C10_EverySymbolTwice ==
    InGame => /\ DOMAIN board = Cells
              /\ Cardinality(SymbolsInUse(board)) = (BOARD_ROWS * BOARD_COLS) \div 2
              /\ \A sym \in SymbolsInUse(board) :
                    Cardinality(CellsWith(board, sym)) = 2

\* A filled board of two pairs on which the shuffle separated the first pair.
C10_Witness ==
    /\ pc = "first" /\ event = "welcome"
    /\ Cardinality(DOMAIN board) = 4
    /\ board[<< 0, 0 >>].symbol # board[<< 0, 1 >>].symbol

\* C11: a matched cell stays matched over every step, is shown with its
\* symbol by display_board before and after the step, and a pick that
\* addresses it is not accepted (no card is taken as first or second pick).
C11_MatchedStep ==
    \A cell \in DOMAIN board :
        board[cell].matched
        => /\ cell \in DOMAIN board'
           /\ board'[cell].matched
           /\ display_board(board)[cell] = board[cell].symbol
           /\ display_board(board')[cell] = board[cell].symbol
           /\ (pc \in {"first", "second"} /\ input'.scanned = 2
                 /\ PickedCell(input') = cell)
              => /\ pc' = "first"
                 /\ moves' = moves
                 /\ board'[cell] = board[cell]

C11_MatchedForever == [][C11_MatchedStep]_vars

\* A matched card was picked again, as second pick, and the pick was refused.
C11_Witness ==
    /\ pc = "first" /\ event = "already_matched" /\ input.scanned = 2
    /\ board[PickedCell(input)].matched
    /\ display_board(board)[PickedCell(input)] = board[PickedCell(input)].symbol
    /\ moves = 2

\* C12: on a grid whose pair count exceeds the number of pool symbols the
\* program never gets past init_board's check: no symbol list is built, no
\* board cell is assigned, no pick is read, and once it has stopped it has
\* reported the failure and exited with a non-zero status.
PairCountExceedsPool ==
    ~BoardIsOdd /\ (BOARD_ROWS * BOARD_COLS) \div 2 > pool_idx

C12_ConfigurationError ==
    PairCountExceedsPool
    => /\ pc \in {"main", "init_board", "exit"}
       /\ board = << >>
       /\ symbols = << >>
       /\ input = NoInput
       /\ moves = 0 /\ pairs_found = 0
       /\ pc = "exit" => /\ event = "not_enough_symbols"
                         /\ exit_status # 0 /\ exit_status # NoIndex

\* The oversized grid has been refused.
C12_Witness ==
    /\ PairCountExceedsPool
    /\ pc = "exit" /\ exit_status = 1 /\ event = "not_enough_symbols"
    /\ board = << >>

\* C13: at every point of shuffle_symbols the array holds the same multiset of
\* symbols as the array passed in, over the same indices, and every index
\* used so far (i and j of each iteration) lies in 0..N-1.
Count(s, v) == Cardinality({ k \in DOMAIN s : s[k] = v })

ShuffleLen == Cardinality(DOMAIN symbols0)

\* The loop index i of the k-th iteration already run.
IterationIndex(k) == shuffle_i + (Len(choices) - k) + 1

C13_ShufflePermutes ==
    /\ DOMAIN symbols = DOMAIN symbols0
    /\ \A v \in ShuffleAlphabet : Count(symbols, v) = Count(symbols0, v)
    /\ \A k \in 1..Len(choices) :
          /\ choices[k] \in 0..(ShuffleLen - 1)
          /\ IterationIndex(k) \in 0..(ShuffleLen - 1)

\* A run over four symbols, two of them equal, is over and has moved symbols.
C13_Witness ==
    /\ ShuffleLen = 4 /\ shuffle_i = 0 /\ Len(choices) = 3
    /\ symbols # symbols0
    /\ symbols0[0] = symbols0[1] /\ symbols0[2] # symbols0[3]

\* C16: the k-th iteration works on i = N-k, for i from N-1 down to 1, and
\* swaps element i with an element at an index j in 0..i, every such j being
\* possible; the array is what these swaps make of the input; and for an
\* input of N distinct elements every permutation of it is the result of
\* exactly one possible sequence of indices (there are as many different
\* results as sequences).
Range(s) == { s[k] : k \in DOMAIN s }

PermutationsOf(s) == { t \in [DOMAIN s -> Range(s)] : Range(t) = Range(s) }

ShuffleResults(s) ==
    { ShuffleFrom(s, Cardinality(DOMAIN s) - 1, js) :
         js \in ChoiceSeqs(Cardinality(DOMAIN s)) }

C16_FisherYates ==
    /\ shuffle_i >= 0 => Len(choices) = (ShuffleLen - 1) - shuffle_i
    /\ \A k \in 1..Len(choices) :
          /\ IterationIndex(k) = ShuffleLen - k
          /\ IterationIndex(k) >= 1
          /\ choices[k] \in 0..IterationIndex(k)
    /\ \A i \in 1..(ShuffleLen - 1) : JChoices(i) = 0..i
    /\ symbols = ShuffleFrom(symbols0, ShuffleLen - 1, choices)
    /\ (choices = << >> /\ Cardinality(Range(symbols0)) = ShuffleLen)
       => /\ PermutationsOf(symbols0) \subseteq ShuffleResults(symbols0)
          /\ Cardinality(ShuffleResults(symbols0))
                = Cardinality(ChoiceSeqs(ShuffleLen))

\* A run over four distinct symbols is over; it left the last one in place
\* and moved the others.
C16_Witness ==
    /\ ShuffleLen = 4 /\ Cardinality(Range(symbols0)) = 4
    /\ shuffle_i = 0 /\ choices = << 3, 0, 0 >>
    /\ symbols[3] = symbols0[3] /\ symbols[0] = symbols0[1]

\* C14: once the board is filled no step changes the symbol of any cell.
C14_SymbolStep ==
    InGame => /\ DOMAIN board' = DOMAIN board
              /\ \A cell \in DOMAIN board :
                    board'[cell].symbol = board[cell].symbol

C14_SymbolsFixed == [][C14_SymbolStep]_vars

\* A mismatch was acknowledged and a match made: cards were revealed, hidden
\* and matched.
C14_Witness ==
    /\ pc = "first" /\ moves = 2 /\ pairs_found = 1 /\ event = "match"
    /\ \E cell \in DOMAIN board : ~board[cell].revealed /\ ~board[cell].matched

\* C15: whenever a pick is awaited, pick_card accepts an input exactly when
\* two integers were parsed, 1 <= row <= R, 1 <= col <= C and the addressed
\* cell is neither matched nor revealed, and then returns (row-1, col-1); it
\* reads flags of in-range cells only; and the board after the pick is the
\* board before it with main's own assignment alone (pick_card changes no cell).
C15_PickCardAccepts ==
    pc \in {"first", "second"}
    => \A in \in Inputs :
          LET res == pick_card(board, in) IN
          /\ res.ok <=> (/\ in.scanned = 2
                         /\ 1 <= in.r /\ in.r <= BOARD_ROWS
                         /\ 1 <= in.c /\ in.c <= BOARD_COLS
                         /\ ~board[<< in.r - 1, in.c - 1 >>].matched
                         /\ ~board[<< in.r - 1, in.c - 1 >>].revealed)
          /\ res.ok => (res.row = in.r - 1 /\ res.col = in.c - 1)
          /\ pick_card_reads(in) \subseteq DOMAIN board
          /\ res.ok => pick_card_reads(in) = { << res.row, res.col >> }

C15_PickCardStep ==
    /\ pc = "first"
       => board' = IF pick_card(board, input').ok
                   THEN [board EXCEPT ![PickedCell(input')].revealed = TRUE]
                   ELSE board
    /\ (pc = "second" /\ ~pick_card(board, input').ok)
       => board' = [board EXCEPT ![<< r1, c1 >>].revealed = FALSE]

C15_PickCard == [](C15_PickCardAccepts) /\ [][C15_PickCardStep]_vars

\* A second pick in the last row and column of a 2x2 board has been accepted.
C15_Witness ==
    /\ pc = "ack" /\ BOARD_ROWS = 2 /\ BOARD_COLS = 2
    /\ input = [scanned |-> 2, r |-> 2, c |-> 2]
    /\ << r2, c2 >> = << 1, 1 >>

\* C17: when a first pick is awaited no cell is revealed and unmatched; when a
\* second pick is awaited exactly the first pick's cell is.
C17_OpenBySlot ==
    /\ pc = "first" => Open(board) = {}
    /\ pc = "second" => Open(board) = { << r1, c1 >> }

\* A second pick is awaited after a pair was matched and a mismatch acknowledged.
C17_Witness ==
    /\ pc = "second" /\ pairs_found = 1 /\ moves = 2
    /\ Open(board) = { << r1, c1 >> } /\ r1 = 1

\* C18: pairs_found is half the number of matched cells, and two cells with
\* the same symbol are either both matched or both unmatched.
Matched(b) == { cell \in DOMAIN b : b[cell].matched }

C18_MatchedWholePairs ==
    InGame => /\ 2 * pairs_found = Cardinality(Matched(board))
              /\ \A a, b \in DOMAIN board :
                    board[a].symbol = board[b].symbol
                    => (board[a].matched <=> board[b].matched)

\* One of two pairs has been matched.
C18_Witness ==
    /\ pc = "first" /\ pairs_found = 1 /\ total_pairs = 2
    /\ Cardinality(Matched(board)) = 2

\* C19: when a first pick is awaited and pairs remain, there are two distinct
\* cells of equal symbol whose picks pick_card accepts one after the other;
\* when a second pick is awaited, the first pick's partner cell is unmatched
\* and unrevealed and pick_card accepts it.
InputFor(cell) == [scanned |-> 2, r |-> cell[1] + 1, c |-> cell[2] + 1]

C19_NoDeadEnd ==
    /\ (pc = "first" /\ pairs_found < total_pairs)
       => \E a, b \in DOMAIN board :
             /\ a # b
             /\ board[a].symbol = board[b].symbol
             /\ ~board[a].matched /\ ~board[a].revealed
             /\ ~board[b].matched /\ ~board[b].revealed
             /\ pick_card(board, InputFor(a)).ok
             /\ pick_card(Reveal(board, a[1], a[2]), InputFor(b)).ok
    /\ pc = "second"
       => \E b \in DOMAIN board :
             /\ b # << r1, c1 >>
             /\ board[b].symbol = board[<< r1, c1 >>].symbol
             /\ ~board[b].matched /\ ~board[b].revealed
             /\ pick_card(board, InputFor(b)).ok

\* Two mismatches and a match into a game of two pairs, a first pick is awaited.
C19_Witness ==
    /\ pc = "first" /\ total_pairs = 2 /\ pairs_found = 1 /\ moves = 3

\* C20: the acknowledgment reads exactly one line (characters up to and
\* including the first newline, nothing after it), so the line entered next
\* is still whole in stdin, and the following first pick is what scanf makes
\* of that whole line.
IsOneLine(t) ==
    /\ t # << >>
    /\ t[Len(t)] = "\n"
    /\ \A k \in 1..(Len(t) - 1) : t[k] # "\n"

C20_AckStep ==
    pc = "ack" => /\ IsOneLine(ack_read')
                  /\ stdin_buf' = next_line'

C20_NextPickStep ==
    (pc = "first" /\ next_line # << >>) => input' \in InputsAfter(next_line)

C20_AckReadsOneLine == [][C20_AckStep /\ C20_NextPickStep]_vars

====
